---- MODULE Spec2Model ----
(***************************************************************************)
(* pgutils: the query builder (src/src/query.rs), its execution helpers    *)
(* (src/src/database.rs) and the migration runner                          *)
(* (src/internal/migrate/src/lib.rs).                                      *)
(*                                                                         *)
(* Text is a sequence of characters, one-character strings.  A String      *)
(* buffer is a sequence of bytes: an ASCII character is its own byte, the  *)
(* two-byte character U+E9, written "U+E9", is the bytes "C3" "A9".                          *)
(***************************************************************************)
EXTENDS Integers, Sequences, FiniteSets, TLC

\* ------------------------------------------------------------------ bounds
\* calls on Query values (new / empty / push / and / or / comma / get /
\* get_one / execute) per behaviour
MaxOps == 3
\* nesting depth of grouping closures
MaxDepth == 1
\* calls of Migrator::migrate per caller
MaxRuns == 2
\* calls on the one Query value of the behaviours that look at grouping
MaxGroupOps == 5
\* calls of Migrator::migrate per caller when two callers run together
MaxRaceRuns == 1

\* ------------------------------------------------------------ text helpers
CountOf(s, x) == Cardinality({i \in 1..Len(s) : s[i] = x})

\* char::len_utf8
len_utf8(c) == IF c = "U+E9" THEN 2 ELSE 1

\* String::push: the UTF-8 bytes of c are appended to the buffer
StringPush(buffer, c) ==
    IF c = "U+E9" THEN buffer \o <<"C3", "A9">> ELSE Append(buffer, c)

\* str::is_char_boundary
is_char_boundary(buffer, i) ==
    \/ i = 0
    \/ i = Len(buffer)
    \/ i < Len(buffer) /\ buffer[i + 1] # "A9"

\* the chars() of a String: the inverse of StringPush
RECURSIVE Chars(_)
Chars(buffer) ==
    IF buffer = <<>> THEN <<>>
    ELSE IF Head(buffer) = "C3" THEN <<"U+E9">> \o Chars(Tail(Tail(buffer)))
    ELSE <<Head(buffer)>> \o Chars(Tail(buffer))

\* usize::to_string, decimal digits
RECURSIVE to_string(_)
to_string(n) ==
    LET d == <<"0", "1", "2", "3", "4", "5", "6", "7", "8", "9">>
    IN  IF n < 10 THEN <<d[n + 1]>> ELSE to_string(n \div 10) \o <<d[(n % 10) + 1]>>

\* ------------------------------------------------------------------- Query
\* #[derive(Default)] struct Query
Query_default ==
    [args |-> <<>>, arg_indexes |-> <<>>, buffer |-> <<>>, cursor |-> 0,
     separated |-> FALSE]

\* Query::append_buffer_with_args
RECURSIVE append_chars(_, _)
append_chars(q, query) ==
    IF query = <<>> THEN q
    ELSE LET c == Head(query)
             q1 == IF c = "?"
                   THEN [q EXCEPT !.arg_indexes = Append(@, q.cursor)]
                   ELSE [q EXCEPT !.buffer = StringPush(@, c),
                                  !.cursor = @ + len_utf8(c)]
         IN  append_chars(q1, Tail(query))

append_buffer_with_args(q, query, args) ==
    LET q1 == append_chars(q, query)
    IN  [q1 EXCEPT !.args = @ \o args]

\* Query::append_buffer
append_buffer(q, query) == append_buffer_with_args(q, query, <<>>)

\* impl Fragment for &str, (&str, T), (&str, T, T), (&str, T, T, T)
push_to_query_str(q, text, vals) ==
    IF vals = <<>> THEN append_buffer(q, text)
    ELSE append_buffer_with_args(q, text, vals)

\* closure_enter with the flag left as it is
closure_enter_kept(q) ==
    IF q.separated THEN append_buffer(q, <<"(">>) ELSE q

\* impl Fragment for F: FnOnce(&mut Query), up to the call of the closure
closure_enter(q) ==
    IF q.separated
    THEN append_buffer([q EXCEPT !.separated = FALSE], <<"(">>)
    ELSE q

\* closure_exit with the closing parenthesis left out
closure_exit_open(q, separated) ==
    IF separated THEN [q EXCEPT !.separated = TRUE] ELSE q

\* impl Fragment for F: FnOnce(&mut Query), after the closure returned;
\* separated is the local saved at entry
closure_exit(q, separated) ==
    IF separated
    THEN append_buffer([q EXCEPT !.separated = TRUE], <<")">>)
    ELSE q

\* impl Fragment for Query: self is spliced into query
push_to_query_Query(query, self) ==
    LET q1 == [query EXCEPT !.args = @ \o self.args]
        q2 == IF q1.separated THEN append_buffer(q1, <<"(">>) ELSE q1
        q3 == [q2 EXCEPT !.arg_indexes =
                   @ \o [i \in 1..Len(self.arg_indexes) |->
                             self.arg_indexes[i] + q2.cursor]]
        q4 == [q3 EXCEPT !.cursor = @ + self.cursor]
        q5 == append_buffer(q4, Chars(self.buffer))
    IN  IF q5.separated THEN append_buffer(q5, <<")">>) ELSE q5

\* the separator keyword of and / comma / or
Separator(op) ==
    CASE op = "and" -> <<" ", "A", "N", "D", " ">>
      [] op = "or" -> <<" ", "O", "R", " ">>
      [] op = "comma" -> <<",">>

\* what a builder call appends before its fragment
\* (push: lines 34-36; and / comma / or: the if / else-if at their head)
Prefix(q, op) ==
    CASE op = "new" -> <<>>
      [] op = "push" -> IF q.buffer # <<>> THEN <<" ">> ELSE <<>>
      [] OTHER -> IF q.separated THEN Separator(op)
                  ELSE IF q.buffer # <<>> THEN <<" ">> ELSE <<>>

\* a builder call up to the point where frag.push_to_query is called
call_head(q, op) ==
    LET q0 == CASE op = "new" -> Query_default
                [] op = "push" -> [q EXCEPT !.separated = FALSE]
                [] OTHER -> q
    IN  append_buffer(q0, Prefix(q0, op))

\* call_tail with the assignment `self.separated = true` left out
call_tail_unset(q, op) == q

\* a builder call after frag.push_to_query returned
call_tail(q, op) ==
    IF op \in {"and", "or", "comma"} THEN [q EXCEPT !.separated = TRUE] ELSE q

\* Query::into_args
into_args(q) == q.args

\* impl Display for Query: fmt, and to_string on top of it.  A slice of the
\* buffer out of range, with start after end, or off a character boundary
\* panics.
Panic == [ok |-> FALSE, text |-> <<>>]

fmt_windows(q) == <<0>> \o q.arg_indexes \o <<Len(q.buffer)>>

RECURSIVE fmt_loop(_, _, _, _)
fmt_loop(q, i, c, out) ==
    LET w == fmt_windows(q) IN
    IF i > Len(w) - 1 THEN [ok |-> TRUE, text |-> out]
    ELSE LET a0 == w[i]
             a1 == w[i + 1]
             marked == a0 # 0
             out1 == IF marked THEN out \o <<"$">> \o to_string(c) ELSE out
             c1 == IF marked THEN c + 1 ELSE c
         IN  IF \/ a0 > a1
                \/ a1 > Len(q.buffer)
                \/ ~is_char_boundary(q.buffer, a0)
                \/ ~is_char_boundary(q.buffer, a1)
             THEN Panic
             ELSE fmt_loop(q, i + 1, c1, out1 \o SubSeq(q.buffer, a0 + 1, a1))

fmt(q) == fmt_loop(q, 1, 1, <<>>)

\* Query::get / get_one / execute hand these two to the driver
driver_call(q) == [stmt |-> fmt(q), params |-> into_args(q)]

\* get_one_result with the check for a second row left out
get_one_result_first(outcome) ==
    IF outcome.rows = 0
    THEN IF outcome.error THEN "PostgresError" ELSE "EmptyResult"
    ELSE "Ok"

\* Database::query_one / Query::get_one on the outcome of the driver: the
\* rows the stream delivers, and whether the driver fails after them (for
\* no row delivered: in acquire, in query_raw or in the first try_next)
get_one_result(outcome) ==
    IF outcome.rows = 0
    THEN IF outcome.error THEN "PostgresError" ELSE "EmptyResult"
    ELSE IF outcome.rows = 1
         THEN IF outcome.error THEN "PostgresError" ELSE "Ok"
         ELSE "EmptyResult"

\* Database::query / execute, Query::get / execute
get_result(outcome) == IF outcome.error THEN "PostgresError" ELSE "Ok"

\* ------------------------------------------------------------ builder state
\* "A" is the statement under construction, "B" a statement built on the
\* side and spliced into "A" as a fragment
Slots == {"A", "B"}
Joiners == {"and", "or", "comma"}

\* the text fragments callers pass: text and the number of values with it
\* (0: a &str, 1..3: the tuples)
TextFragments ==
    { [kind |-> "text", text |-> <<"a">>, n |-> 0],
      [kind |-> "text", text |-> <<"?">>, n |-> 0],
      [kind |-> "text", text |-> <<"?">>, n |-> 1],
      [kind |-> "text", text |-> <<"?", "U+E9", "?">>, n |-> 2] }

Fragments(t) ==
    TextFragments \cup {[kind |-> "closure"]}
    \cup (IF t = "A" THEN {[kind |-> "query"]} ELSE {})

VARIABLES
    qs,        \* the Query values the caller holds, one per slot
    frames,    \* per slot, the open grouping closures: the builder call
               \* that took the closure and its local `separated`
    ncalls,    \* calls made so far
    sent,      \* the statement handed to the driver, and the result
    hist       \* per slot, history of the Query: the text appended with
               \* its placeholders kept, whether every placeholder came
               \* with a value, the last splice, the last call started,
               \* whether it returned and how many closures were open when
               \* it started, where each open closure began, the
               \* last joiner call and the last closure or Query fragment,
               \* and the builder call that has just returned

qvars == <<qs, frames, ncalls, sent, hist>>

VARIABLES
    db,      \* the database: whether the table migrations exists, its rows,
             \* the committed effects of migration statements, and how
             \* many rows were committed per version
    mig,     \* per caller, the migrate call in progress: where it is, its
             \* Migrator, `current`, the loop index, the statement index,
             \* the open transaction and the result returned
    runs,    \* per caller, the calls of migrate started
    mlog     \* per caller, history of the call: the database it started
             \* from, the records it applied, verified and began to apply,
             \* the failure it met, and the list and result of the call
             \* before it

mvars == <<db, mig, runs, mlog>>
vars == <<qs, frames, ncalls, sent, hist, db, mig, runs, mlog>>

NoCall == [op |-> "none"]
NoGroup == [kind |-> "none"]
NoSent == [kind |-> "none"]

\* history of Query::empty()
hist_default ==
    [raw |-> <<>>, paired |-> TRUE, splice |-> [on |-> FALSE],
     lastOp |-> "none", lastDone |-> TRUE, lastDepth |-> 0, open |-> <<>>,
     call |-> NoCall, group |-> NoGroup, returned |-> "none"]

InitQuery ==
    /\ qs = [t \in Slots |-> Query_default]
    /\ frames = [t \in Slots |-> <<>>]
    /\ ncalls = 0
    /\ sent = NoSent
    /\ hist = [t \in Slots |-> hist_default]

\* the n values that come with a text fragment appended to q in slot t: each
\* value is told from every other by the slot and its rank
Values(t, q, n) ==
    [i \in 1..n |-> (IF t = "A" THEN 10 ELSE 20) + Len(q.args) + i]

\* the text of a fragment with each placeholder tagged with its value
\* (0: no value came with it)
RECURSIVE Tagged(_, _, _)
Tagged(text, vals, k) ==
    IF text = <<>> THEN <<>>
    ELSE IF Head(text) = "?"
         THEN <<[c |-> "?", v |-> IF k <= Len(vals) THEN vals[k] ELSE 0]>>
              \o Tagged(Tail(text), vals, k + 1)
         ELSE <<[c |-> Head(text), v |-> 0]>> \o Tagged(Tail(text), vals, k)

Plain(text) == Tagged(text, <<>>, 1)

\* ---------------------------------------------------------- builder calls
\* history after a call `op` started with `depth` closures open and
\* appended `items`; `done`: it has returned
Record(h, items, paired, op, done, depth) ==
    [h EXCEPT !.raw = @ \o items,
              !.paired = @ /\ paired,
              !.lastOp = op,
              !.lastDone = done,
              !.lastDepth = depth,
              !.returned = IF done THEN op ELSE "none"]

\* the bytes a step appended to the buffer
Appended(q, q1) == SubSeq(q1.buffer, Len(q.buffer) + 1, Len(q1.buffer))

\* what the history keeps of a joiner call made with `depth` closures open:
\* the call, what it inserted before its fragment, the call started before
\* it, whether the two are adjacent (that call has returned and was made
\* with as many closures open, so nothing happened between the two),
\* whether the buffer the call found had text, the call that had just
\* returned, whether the call is the first one in a closure body, whether
\* that closure was entered in a separated context, and whether the call
\* comes right after such a closure returned
LogCall(h, op, q, q1, depth) ==
    IF op \in Joiners
    THEN [op |-> op, pre |-> Appended(q, q1),
          prevOp |-> h.lastOp,
          adjacent |-> h.lastDone /\ h.lastDepth = depth,
          nonEmpty |-> q.buffer # <<>>,
          after |-> h.returned,
          first |-> ~h.lastDone,
          grouped |-> depth > 0 /\ h.open[depth].sepAt,
          afterGroup |-> /\ h.group.kind = "closure"
                         /\ h.group.sepAt
                         /\ h.group.closed = q.buffer]
    ELSE h.call

\* the Query and the history a call starts from
Start(t, op) ==
    IF op = "new" THEN [q |-> Query_default, h |-> hist_default]
    ELSE [q |-> qs[t], h |-> hist[t]]

\* new / push / and / or / comma with a text fragment
CallText(t, op, f) ==
    LET s == Start(t, op)
        vals == Values(t, s.q, f.n)
        q1 == call_head(s.q, op)
        q2 == push_to_query_str(q1, f.text, vals)
        q3 == call_tail(q2, op)
        items == Plain(Chars(Appended(s.q, q1))) \o Tagged(f.text, vals, 1)
    IN  /\ qs' = [qs EXCEPT ![t] = q3]
        /\ hist' = [hist EXCEPT ![t] =
               [Record(s.h, items, CountOf(f.text, "?") = f.n, op, TRUE,
                       Len(frames[t]))
                   EXCEPT !.call = LogCall(s.h, op, s.q, q1, Len(frames[t]))]]
        /\ UNCHANGED frames

\* new / push / and / or / comma with a grouping closure: the call runs up
\* to the point where the closure body starts
CallClosure(t, op) ==
    LET s == Start(t, op)
        q1 == call_head(s.q, op)
        q2 == closure_enter(q1)
        items == Plain(Chars(Appended(s.q, q2)))
    IN  /\ Len(frames[t]) < MaxDepth
        /\ qs' = [qs EXCEPT ![t] = q2]
        /\ frames' = [frames EXCEPT ![t] =
               Append(@, [op |-> op, separated |-> q1.separated])]
        /\ hist' = [hist EXCEPT ![t] =
               [Record(s.h, items, TRUE, op, FALSE, Len(frames[t]))
                   EXCEPT !.call = LogCall(s.h, op, s.q, q1, Len(frames[t])),
                          !.open = Append(@,
                              [base |-> q1.buffer, opened |-> q2.buffer,
                               sepAt |-> q1.separated])]]

\* new / push / and / or / comma on slot t with the Query of slot u, which
\* is moved into the call
CallQuery(t, u, op) ==
    LET s == Start(t, op)
        q1 == call_head(s.q, op)
        q2 == push_to_query_Query(q1, qs[u])
        q3 == call_tail(q2, op)
        paren == Len(q2.buffer) > Len(q1.buffer) + Len(qs[u].buffer)
        pre == Chars(Appended(s.q, q1))
        items == Plain(pre)
                 \o (IF paren THEN Plain(<<"(">>) ELSE <<>>)
                 \o hist[u].raw
                 \o (IF paren THEN Plain(<<")">>) ELSE <<>>)
    IN  /\ frames[u] = <<>>
        /\ qs' = [qs EXCEPT ![t] = q3, ![u] = Query_default]
        /\ hist' = [hist EXCEPT
               ![t] = [Record(s.h, items, hist[u].paired, op, TRUE,
                              Len(frames[t]))
                         EXCEPT !.call = LogCall(s.h, op, s.q, q1, Len(frames[t])),
                                !.splice =
                                  [on |-> TRUE, a |-> s.h.raw,
                                   pre |-> pre,
                                   paren |-> paren, b |-> hist[u].raw],
                                !.group =
                                  [kind |-> "query", op |-> op,
                                   sepAt |-> q1.separated,
                                   base |-> q1.buffer, body |-> qs[u].buffer,
                                   closed |-> q2.buffer]],
               ![u] = hist_default]
        /\ UNCHANGED frames

\* a builder call, the max-th call of the behaviour at most
CallUpTo(t, op, f, max) ==
    /\ sent = NoSent
    /\ ncalls < max
    /\ ncalls' = ncalls + 1
    /\ op = "new" => frames[t] = <<>>
    /\ CASE f.kind = "text" -> CallText(t, op, f)
         [] f.kind = "closure" -> CallClosure(t, op)
         [] f.kind = "query" -> CallQuery(t, "B", op)
    /\ UNCHANGED sent

Call(t, op, f) == CallUpTo(t, op, f, MaxOps)

\* Query::new
New(t) ==
    \E f \in Fragments(t) : Call(t, "new", f) /\ UNCHANGED mvars
\* Query::push
Push(t) ==
    \E f \in Fragments(t) : Call(t, "push", f) /\ UNCHANGED mvars
\* Query::and
And(t) ==
    \E f \in Fragments(t) : Call(t, "and", f) /\ UNCHANGED mvars
\* Query::or
Or(t) ==
    \E f \in Fragments(t) : Call(t, "or", f) /\ UNCHANGED mvars
\* Query::comma
Comma(t) ==
    \E f \in Fragments(t) : Call(t, "comma", f) /\ UNCHANGED mvars

\* Query::empty
Empty(t) ==
    /\ sent = NoSent
    /\ ncalls < MaxOps
    /\ frames[t] = <<>>
    /\ ncalls' = ncalls + 1
    /\ qs' = [qs EXCEPT ![t] = Query_default]
    /\ hist' = [hist EXCEPT ![t] = hist_default]
    /\ UNCHANGED <<frames, sent>>
    /\ UNCHANGED mvars

\* a grouping closure returns: the rest of its push_to_query runs, then the
\* rest of the builder call that took it
Return(t) ==
    /\ sent = NoSent
    /\ frames[t] # <<>>
    /\ LET n == Len(frames[t])
           fr == frames[t][n]
           o == hist[t].open[n]
           q1 == closure_exit(qs[t], fr.separated)
           q2 == call_tail(q1, fr.op)
       IN  /\ qs' = [qs EXCEPT ![t] = q2]
           /\ frames' = [frames EXCEPT ![t] = SubSeq(@, 1, n - 1)]
           /\ hist' = [hist EXCEPT ![t] =
                  [@ EXCEPT !.raw = @ \o Plain(Chars(Appended(qs[t], q1))),
                            !.lastDone = TRUE,
                            !.returned = fr.op,
                            !.open = SubSeq(@, 1, n - 1),
                            !.group =
                              [kind |-> "closure", op |-> fr.op,
                               sepAt |-> o.sepAt, base |-> o.base,
                               body |-> SubSeq(qs[t].buffer,
                                               Len(o.opened) + 1,
                                               Len(qs[t].buffer)),
                               closed |-> q1.buffer]]]
    /\ UNCHANGED <<ncalls, sent>>
    /\ UNCHANGED mvars

\* the outcomes of the driver: a stream of 0, 1 or 2 rows, or an error
\* before the first row or after it
Outcomes ==
    {[error |-> TRUE, rows |-> n] : n \in 0..1}
    \cup {[error |-> FALSE, rows |-> n] : n \in 0..2}

\* the Query of slot t is consumed for execution.  The builder state this
\* leaves is the one Empty(t) leaves, so a behaviour ends with it; the
\* statement that is executed is the one of slot "A".
Consume(t, kind, outcome, result) ==
    /\ sent = NoSent
    /\ ncalls < MaxOps
    /\ frames[t] = <<>>
    /\ ncalls' = ncalls + 1
    /\ sent' = [kind |-> kind, call |-> driver_call(qs[t]),
                raw |-> hist[t].raw, paired |-> hist[t].paired,
                spliced |-> hist[t].splice.on, outcome |-> outcome,
                result |-> result]
    /\ qs' = [qs EXCEPT ![t] = Query_default]
    /\ hist' = [hist EXCEPT ![t] = hist_default]
    /\ UNCHANGED frames

\* Query::get
Get(t) ==
    \E o \in Outcomes :
        Consume(t, "get", o, get_result(o)) /\ UNCHANGED mvars
\* Query::get_one
GetOne(t) ==
    \E o \in Outcomes :
        Consume(t, "get_one", o, get_one_result(o)) /\ UNCHANGED mvars
\* Query::execute
Execute(t) ==
    \E o \in Outcomes :
        Consume(t, "execute", o, get_result(o)) /\ UNCHANGED mvars

\* Database::query_one with a statement and parameters of the caller's
QueryOne ==
    /\ sent = NoSent
    /\ ncalls < MaxOps
    /\ ncalls' = ncalls + 1
    /\ \E o \in Outcomes :
          sent' = [kind |-> "query_one", outcome |-> o,
                   result |-> get_one_result(o)]
    /\ UNCHANGED <<qs, frames, hist>>
    /\ UNCHANGED mvars

NextQuery ==
    \/ \E t \in Slots :
          \/ New(t) \/ Empty(t) \/ Push(t) \/ And(t) \/ Or(t) \/ Comma(t)
          \/ Return(t)
    \/ Get("A") \/ GetOne("A") \/ Execute("A")
    \/ QueryOne

\* ------------------------------------------------------- migration runner
\* str::split(";"): the pieces of text between the separators
RECURSIVE split(_, _)
split(text, sep) ==
    IF \A k \in 1..Len(text) : text[k] # sep THEN <<text>>
    ELSE LET k == CHOOSE k \in 1..Len(text) :
                      text[k] = sep /\ \A l \in 1..(k - 1) : text[l] # sep
         IN  <<SubSeq(text, 1, k - 1)>> \o split(SubSeq(text, k + 1, Len(text)), sep)

\* a test that takes no piece for empty
never_empty(text) == FALSE

\* str::trim().is_empty()
trim_is_empty(text) == \A k \in 1..Len(text) : text[k] \in {" ", "\n", "\t"}

\* format!("{:x}", Sha256::digest(sql.as_bytes())): a digest, taken to be
\* free of collisions, so it is told apart exactly when the text is
sha256_hex(sql) == <<"sha256">> \o sql

\* struct Migration, its checksum computed as TryFrom<DirEntry> does
Migration(version, name, sql) ==
    [checksum |-> sha256_hex(sql), name |-> name, sql |-> sql,
     version |-> version]

\* the migration records of the model: versions 1 and 2, and version 2 once
\* more with its file edited
M1 == Migration(1, "init", <<"s", ";", " ", ";", "t">>)
M2 == Migration(2, "add_col", <<"u", ";">>)
M2x == Migration(2, "add_col", <<"w">>)

Versions == {1, 2}

\* Migrator::new: the lists callers run
Migrators == { <<M1, M2>>, <<M1, M2x>>, <<M2>>, <<M1, M1>>, <<M2, M1>> }

Callers == {"c1", "c2"}

NoTx == [open |-> FALSE, stmts |-> <<>>, row |-> <<>>]
NoFailure == [stage |-> "none", index |-> 0, stmts |-> 0]

InitMigrate ==
    /\ db = [exists |-> FALSE, rows |-> {}, effects |-> {},
             nrows |-> [v \in Versions |-> 0]]
    /\ mig = [c \in Callers |->
                 [pc |-> "idle", migrations |-> <<>>, current |-> <<>>,
                  i |-> 0, j |-> 0, tx |-> NoTx, result |-> "none"]]
    /\ runs = [c \in Callers |-> 0]
    /\ mlog = [c \in Callers |->
                  [start |-> db, applied |-> <<>>, verified |-> <<>>,
                   begun |-> <<>>, failure |-> NoFailure, txbase |-> db,
                   prevList |-> <<>>, prevResult |-> "none"]]

Init == InitQuery /\ InitMigrate

\* the rows of SELECT version, checksum FROM migrations ORDER BY version
RECURSIVE order_by_version(_)
order_by_version(rows) ==
    IF rows = {} THEN <<>>
    ELSE LET r == CHOOSE r \in rows : \A o \in rows : r.version <= o.version
         IN  <<[checksum |-> r.checksum, version |-> r.version]>>
             \o order_by_version(rows \ {r})

\* find that never finds
find_none(current, version) == 0

\* find with a predicate that holds for every entry
find_any(current, version) == IF current = <<>> THEN 0 ELSE 1

\* current.iter().find(|a| a.version == migration.version): the index of
\* the first such entry, 0 for None
find(current, version) ==
    IF \E k \in 1..Len(current) : current[k].version = version
    THEN CHOOSE k \in 1..Len(current) :
             /\ current[k].version = version
             /\ \A l \in 1..(k - 1) : current[l].version # version
    ELSE 0

\* the effect of one statement of a migration on the database
Effect(m, stmt) == [version |-> m.version, checksum |-> m.checksum, stmt |-> stmt]

\* the statement run on the connection, outside the transaction
db_execute(d, tx, e) == [db |-> [d EXCEPT !.effects = @ \cup {e}], tx |-> tx]

\* tx.execute(&stmt.to_string(), &[]): the statement runs inside the
\* transaction
tx_execute(d, tx, e) == [db |-> d, tx |-> [tx EXCEPT !.stmts = Append(@, e)]]

\* apply_migration without its INSERT INTO migrations
tx_insert_none(tx, m) == tx

\* the INSERT INTO migrations of apply_migration, inside the transaction
tx_insert(tx, m) ==
    [tx EXCEPT !.row = <<[version |-> m.version, name |-> m.name,
                          checksum |-> m.checksum]>>]

\* tx.commit(): the rows and effects of the transaction become the
\* database's
tx_commit(d, tx) ==
    [d EXCEPT !.rows = @ \cup {tx.row[k] : k \in 1..Len(tx.row)},
              !.effects = @ \cup {tx.stmts[k] : k \in 1..Len(tx.stmts)},
              !.nrows = [v \in Versions |->
                            @[v] + Cardinality({k \in 1..Len(tx.row) :
                                                   tx.row[k].version = v})]]

\* a table without the primary key
no_primary_key(d, version) == FALSE

\* version BIGINT PRIMARY KEY: a row with the version is there already
primary_key_taken(d, version) == \E r \in d.rows : r.version = version

\* an INSERT that never waits
insert_free(c, version) == FALSE

\* the INSERT of a row with this version has to wait: another transaction
\* has inserted a row with the same key and is still open (the unique index
\* of the primary key makes the later INSERT wait for the earlier
\* transaction to end)
insert_waits(c, version) ==
    \E o \in Callers \ {c} :
        /\ mig[o].tx.open
        /\ \E k \in 1..Len(mig[o].tx.row) : mig[o].tx.row[k].version = version

\* return Err(e) / Ok(()) from migrate; a transaction still open is dropped,
\* which rolls it back
Returned(m, result) ==
    [m EXCEPT !.pc = "idle", !.result = result, !.tx = NoTx]

\* the error of a database call swallowed: the loop goes on with the next
\* record
on_error_continue(m) == [m EXCEPT !.pc = "loop", !.i = @ + 1, !.tx = NoTx]

\* the `?` after a database call that failed: migrate returns the error
\* as MigrationError::PostgresError
on_error(m) == Returned(m, "PostgresError")

\* a database call of stage `stage` fails; `base` is the database as it was
\* when the transaction of the record began
FailWith(c, stage, base) ==
    /\ mig' = [mig EXCEPT ![c] = on_error(@)]
    /\ mlog' = [mlog EXCEPT ![c].failure =
                   [stage |-> stage, index |-> mig[c].i,
                    stmts |-> Len(mig[c].tx.stmts)],
                            ![c].txbase = base]
    /\ UNCHANGED <<db, runs>>

Fail(c, stage) == FailWith(c, stage, mlog[c].txbase)

\* a caller calls Migrator::migrate with one of the lists, for the max-th
\* time at most
MigrateStartUpTo(c, max) ==
    /\ mig[c].pc = "idle"
    /\ runs[c] < max
    /\ \E list \in Migrators :
          mig' = [mig EXCEPT ![c] =
                     [pc |-> "ensure_table", migrations |-> list,
                      current |-> <<>>, i |-> 0, j |-> 0, tx |-> NoTx,
                      result |-> "none"]]
    /\ runs' = [runs EXCEPT ![c] = @ + 1]
    /\ mlog' = [mlog EXCEPT ![c] =
                   [start |-> db, applied |-> <<>>, verified |-> <<>>,
                    begun |-> <<>>, failure |-> NoFailure, txbase |-> db,
                    prevList |-> mig[c].migrations,
                    prevResult |-> mig[c].result]]
    /\ UNCHANGED db

MigrateStart(c) == MigrateStartUpTo(c, MaxRuns) /\ UNCHANGED qvars

\* Migrator::ensure_table
EnsureTable(c) ==
    /\ UNCHANGED qvars
    /\ /\ mig[c].pc = "ensure_table"
       /\ \/ /\ db' = [db EXCEPT !.exists = TRUE]
             /\ mig' = [mig EXCEPT ![c].pc = "get_applied_migrations"]
             /\ UNCHANGED <<runs, mlog>>
          \/ Fail(c, "ensure_table")

\* Migrator::get_applied_migrations
GetAppliedMigrations(c) ==
    /\ UNCHANGED qvars
    /\ /\ mig[c].pc = "get_applied_migrations"
       /\ \/ /\ db.exists
             /\ mig' = [mig EXCEPT ![c].current = order_by_version(db.rows),
                                   ![c].i = 1,
                                   ![c].pc = "loop"]
             /\ UNCHANGED <<db, runs, mlog>>
          \/ Fail(c, "get_applied_migrations")

\* the comparison left out
checksum_ignored(a, migration) == FALSE

\* the outcome of the comparison of migrate for a record found in
\* `current`: the checksums differ
checksum_differs(a, migration) == a.checksum # migration.checksum

\* migrate, the loop: the record is in `current` (Some(a))
Verify(c) ==
    /\ UNCHANGED qvars
    /\ LET m == mig[c] IN
       /\ m.pc = "loop"
       /\ m.i <= Len(m.migrations)
       /\ find(m.current, m.migrations[m.i].version) # 0
       /\ LET a == m.current[find(m.current, m.migrations[m.i].version)] IN
          /\ mig' = [mig EXCEPT ![c] =
                 IF checksum_differs(a, m.migrations[m.i])
                 THEN Returned(m, "ChecksumError")
                 ELSE [m EXCEPT !.i = @ + 1]]
          /\ mlog' = [mlog EXCEPT ![c].verified = Append(@, m.i)]
       /\ UNCHANGED <<db, runs>>

\* migrate, the loop: the record is not in `current` (None), so
\* apply_migration starts: db.transaction()
Transaction(c) ==
    /\ UNCHANGED qvars
    /\ LET m == mig[c] IN
       /\ m.pc = "loop"
       /\ m.i <= Len(m.migrations)
       /\ find(m.current, m.migrations[m.i].version) = 0
       /\ \/ /\ mig' = [mig EXCEPT ![c].tx = [NoTx EXCEPT !.open = TRUE],
                                   ![c].j = 1,
                                   ![c].pc = "statements"]
             /\ mlog' = [mlog EXCEPT ![c].begun = Append(@, m.i),
                                     ![c].txbase = db]
             /\ UNCHANGED <<db, runs>>
          \/ FailWith(c, "apply_migration", db)

\* apply_migration, the loop over migration.sql.split(";"): one piece
ExecuteStatement(c) ==
    /\ UNCHANGED qvars
    /\ LET m == mig[c]
           pieces == split(m.migrations[m.i].sql, ";")
       IN
       /\ m.pc = "statements"
       /\ m.j <= Len(pieces)
       /\ IF trim_is_empty(pieces[m.j])
          THEN /\ mig' = [mig EXCEPT ![c].j = @ + 1]
               /\ UNCHANGED <<db, runs, mlog>>
          ELSE \/ LET r == tx_execute(db, m.tx,
                                      Effect(m.migrations[m.i], pieces[m.j]))
                  IN  /\ db' = r.db
                      /\ mig' = [mig EXCEPT ![c].tx = r.tx, ![c].j = @ + 1]
                      /\ UNCHANGED <<runs, mlog>>
               \/ Fail(c, "apply_migration")

\* apply_migration, the INSERT INTO migrations
InsertRow(c) ==
    /\ UNCHANGED qvars
    /\ LET m == mig[c] IN
       /\ m.pc = "statements"
       /\ m.j > Len(split(m.migrations[m.i].sql, ";"))
       /\ \/ /\ ~insert_waits(c, m.migrations[m.i].version)
             /\ ~primary_key_taken(db, m.migrations[m.i].version)
             /\ mig' = [mig EXCEPT ![c].tx = tx_insert(@, m.migrations[m.i]),
                                   ![c].pc = "commit"]
             /\ UNCHANGED <<db, runs, mlog>>
          \/ Fail(c, "apply_migration")

\* apply_migration, tx.commit(), and back to the loop of migrate
Commit(c) ==
    /\ UNCHANGED qvars
    /\ LET m == mig[c] IN
       /\ m.pc = "commit"
       /\ \/ /\ db' = tx_commit(db, m.tx)
             /\ mig' = [mig EXCEPT ![c].tx = NoTx, ![c].i = @ + 1,
                                   ![c].pc = "loop"]
             /\ mlog' = [mlog EXCEPT ![c].applied = Append(@, m.i)]
             /\ UNCHANGED runs
          \/ Fail(c, "apply_migration")

\* migrate, after the loop: Ok(())
Finish(c) ==
    /\ UNCHANGED qvars
    /\ LET m == mig[c] IN
       /\ m.pc = "loop"
       /\ m.i > Len(m.migrations)
       /\ mig' = [mig EXCEPT ![c] = Returned(m, "Ok")]
       /\ UNCHANGED <<db, runs, mlog>>

Migrate(c) ==
    \/ MigrateStart(c) \/ EnsureTable(c) \/ GetAppliedMigrations(c)
    \/ Verify(c) \/ Transaction(c) \/ ExecuteStatement(c) \/ InsertRow(c)
    \/ Commit(c) \/ Finish(c)

\* one Query built with literal text and grouping closures only, by more
\* calls
GroupFragments == {[kind |-> "text", text |-> <<"a">>, n |-> 0], [kind |-> "closure"]}

GroupPush ==
    \E f \in GroupFragments :
        CallUpTo("A", "push", f, MaxGroupOps) /\ UNCHANGED mvars
GroupAnd ==
    \E f \in GroupFragments :
        CallUpTo("A", "and", f, MaxGroupOps) /\ UNCHANGED mvars
GroupOr ==
    \E f \in GroupFragments :
        CallUpTo("A", "or", f, MaxGroupOps) /\ UNCHANGED mvars
GroupComma ==
    \E f \in GroupFragments :
        CallUpTo("A", "comma", f, MaxGroupOps) /\ UNCHANGED mvars

NextGroup == GroupPush \/ GroupAnd \/ GroupOr \/ GroupComma \/ Return("A")

\* --------------------------------------------------------- specifications
\* the query builder and the execution of statements
SpecQuery == Init /\ [][NextQuery]_vars

\* grouping closures on one Query
SpecGroup == Init /\ [][NextGroup]_vars

\* migrate called by a single caller, time and again
NextMigrate == Migrate("c1")

SpecMigrate == Init /\ [][NextMigrate]_vars

\* migrate called by two callers with a connection each, against the same
\* database, their steps interleaved
RaceStart(c) == MigrateStartUpTo(c, MaxRaceRuns) /\ UNCHANGED qvars

NextRace ==
    \E c \in Callers :
        \/ RaceStart(c) \/ EnsureTable(c) \/ GetAppliedMigrations(c)
        \/ Verify(c) \/ Transaction(c) \/ ExecuteStatement(c) \/ InsertRow(c)
        \/ Commit(c) \/ Finish(c)

SpecRace == Init /\ [][NextRace]_vars

\* ------------------------------------------------------- reference rendering
\* the text a statement stands for: its n-th placeholder reads $n
RECURSIVE Expected(_, _)
Expected(raw, n) ==
    IF raw = <<>> THEN <<>>
    ELSE IF Head(raw).c = "?"
         THEN <<"$">> \o to_string(n) \o Expected(Tail(raw), n + 1)
         ELSE StringPush(<<>>, Head(raw).c) \o Expected(Tail(raw), n)

\* the values of the placeholders of a text, left to right
RECURSIVE ExpectedArgs(_)
ExpectedArgs(raw) ==
    IF raw = <<>> THEN <<>>
    ELSE IF Head(raw).c = "?"
         THEN <<Head(raw).v>> \o ExpectedArgs(Tail(raw))
         ELSE ExpectedArgs(Tail(raw))

Placeholders(raw) == Len(ExpectedArgs(raw))

\* C1: a Query whose placeholders all came with a value renders, and the
\* rendering is its text with the n-th `?` from the left, wherever it
\* stands, replaced by $n: k placeholders give the k markers $1..$k.
C1_Renumbering ==
    \A t \in Slots :
        hist[t].paired =>
            /\ fmt(qs[t]).ok
            /\ fmt(qs[t]).text = Expected(hist[t].raw, 1)
            /\ CountOf(fmt(qs[t]).text, "$") = Placeholders(hist[t].raw)

\* C2: after a Query B was spliced into A, whatever is appended to A later,
\* A renders as A's former rendering, then what the call inserted, then B's
\* text (in parentheses when the call wrapped it) with B's placeholders
\* numbered from A's former count + 1, then the later text numbered on from
\* there; the arguments are A's, then B's, then the later ones.  (Stated
\* for statements whose text does not begin with a placeholder.)
C2_Splice ==
    LET h == hist["A"]
        sp == h.splice
        nA == Placeholders(sp.a)
        nB == Placeholders(sp.b)
        open == IF sp.paren THEN Plain(<<"(">>) ELSE <<>>
        close == IF sp.paren THEN Plain(<<")">>) ELSE <<>>
        upto == Len(sp.a) + Len(sp.pre) + Len(open) + Len(sp.b) + Len(close)
        rest == SubSeq(h.raw, upto + 1, Len(h.raw))
        r == fmt(qs["A"])
    IN  (sp.on /\ h.paired /\ (h.raw # <<>> => h.raw[1].c # "?")) =>
            /\ r.ok
            /\ r.text = Expected(sp.a, 1)
                        \o Expected(Plain(sp.pre) \o open, 1)
                        \o Expected(sp.b, nA + 1)
                        \o Expected(close, 1)
                        \o Expected(rest, nA + nB + 1)
            /\ qs["A"].args = ExpectedArgs(sp.a) \o ExpectedArgs(sp.b)
                              \o ExpectedArgs(rest)

\* C3: the statement handed to the driver has as many $N markers as
\* parameters, and $N stands where the N-th placeholder stood and refers to
\* the N-th parameter, the value supplied with that placeholder.
C3_Extraction ==
    (sent.kind \in {"get", "get_one", "execute"} /\ sent.paired) =>
        /\ sent.call.stmt.ok
        /\ CountOf(sent.call.stmt.text, "$") = Len(sent.call.params)
        /\ sent.call.stmt.text = Expected(sent.raw, 1)
        /\ sent.call.params = ExpectedArgs(sent.raw)

\* the separators the joiners stand for
Keyword(op) ==
    CASE op = "and" -> <<" ", "A", "N", "D", " ">>
      [] op = "or" -> <<" ", "O", "R", " ">>
      [] op = "comma" -> <<",">>

\* C4: of two calls made one directly after the other on a statement, a
\* joiner call that follows a joiner call inserts exactly its own separator,
\* whichever joiner the earlier call was; a joiner call that follows a push
\* or new which left the buffer non-empty inserts a single space and no
\* separator.
C4_Separators ==
    \A t \in Slots :
        LET c == hist[t].call IN
        (c.op # "none" /\ c.adjacent) =>
            /\ c.prevOp \in Joiners => c.pre = Keyword(c.op)
            /\ (c.prevOp \in {"push", "new"} /\ c.nonEmpty) => c.pre = <<" ">>

\* C4 witness: new("a"), comma("a"), and("a"): a space before the first
\* joined fragment, the separator of the later call before the second
C4_Witness ==
    /\ qs["A"].buffer = <<"a", " ", "a", " ", "A", "N", "D", " ", "a">>
    /\ hist["A"].call.op = "and"
    /\ hist["A"].call.prevOp = "comma"
    /\ hist["A"].call.adjacent

\* parentheses of a text pair off
RECURSIVE Depths(_, _)
Depths(text, d) ==
    IF text = <<>> THEN <<d>>
    ELSE <<d>> \o Depths(Tail(text),
                         IF Head(text) = "(" THEN d + 1
                         ELSE IF Head(text) = ")" THEN d - 1 ELSE d)

Balanced(text) ==
    LET ds == Depths(text, 0)
    IN  ds[Len(ds)] = 0 /\ \A i \in 1..Len(ds) : ds[i] >= 0

\* C5: a closure or Query fragment a joiner call appended: when the
\* statement was separated (its buffer then is not empty) the buffer grew
\* by "(", the text of the fragment, ")", a matching pair; otherwise it
\* grew by the text of the fragment alone.
C5_Grouping ==
    \A t \in Slots :
        LET g == hist[t].group IN
        (g.kind # "none" /\ g.op \in Joiners) =>
            /\ Balanced(g.body)
            /\ IF g.sepAt /\ g.base # <<>>
               THEN g.closed = g.base \o <<"(">> \o g.body \o <<")">>
               ELSE g.closed = g.base \o g.body

\* C5 witness: and("a"), then and(closure) whose body appended text: the
\* group is wrapped
C5_Witness ==
    /\ hist["A"].group.kind = "closure"
    /\ hist["A"].group.op = "and"
    /\ hist["A"].group.sepAt
    /\ hist["A"].group.body # <<>>
    /\ hist["A"].group.closed =
           hist["A"].group.base \o <<"(">> \o hist["A"].group.body \o <<")">>

\* ------------------------------------------------------- migration claims
\* the set of the elements of a sequence
Range(seq) == {seq[k] : k \in 1..Len(seq)}

\* the caller's call of migrate has returned
Finished(c) == mig[c].pc = "idle" /\ mig[c].result # "none"

\* the call is a second call in a row with the list of a call that
\* returned Ok
Repeated(c) ==
    /\ mlog[c].prevResult = "Ok"
    /\ mlog[c].prevList = mig[c].migrations

\* the call performed no apply action and left the database as it found it
NothingApplied(c) ==
    /\ mlog[c].begun = <<>>
    /\ mlog[c].applied = <<>>
    /\ mig[c].tx = NoTx
    /\ db.rows = mlog[c].start.rows
    /\ db.effects = mlog[c].start.effects

\* the call failed in ensure_table or in the lookup of the applied set
FailedBeforeLoop(c) ==
    /\ mig[c].result = "PostgresError"
    /\ mlog[c].failure.stage \in {"ensure_table", "get_applied_migrations"}

\* C6 as stated: a second call in a row with the same list, after a call
\* that returned Ok, performs no apply action, leaves the table unchanged
\* and returns Ok.
C6_Idempotence ==
    Repeated("c1") =>
        /\ NothingApplied("c1")
        /\ Finished("c1") => mig["c1"].result = "Ok"

\* C6 amended: a second call in a row with the same list, after a call that
\* returned Ok, performs no apply action and leaves the table unchanged; it
\* returns Ok unless ensure_table or the lookup of the applied set fails,
\* and then it returns that PostgresError.
C6_IdempotenceAmended ==
    Repeated("c1") =>
        /\ NothingApplied("c1")
        /\ Finished("c1") =>
               mig["c1"].result = "Ok" \/ FailedBeforeLoop("c1")

\* C6 witness: <<M1, M2>> run twice, both calls Ok, the second one having
\* verified both records against the rows of the first
C6_Witness ==
    /\ Repeated("c1")
    /\ Finished("c1")
    /\ mig["c1"].result = "Ok"
    /\ mig["c1"].migrations = <<M1, M2>>
    /\ mlog["c1"].verified = <<1, 2>>
    /\ Cardinality(db.rows) = 2

\* the records of the list whose version has a row with another checksum in
\* the table the call started from
Mismatched(c) ==
    {k \in 1..Len(mig[c].migrations) :
        \E r \in mlog[c].start.rows :
            /\ r.version = mig[c].migrations[k].version
            /\ r.checksum # mig[c].migrations[k].checksum}

FirstMismatched(c) ==
    CHOOSE k \in Mismatched(c) : \A l \in Mismatched(c) : k <= l

\* no record at or after the first mismatched one is applied, or begun
NothingFromMismatch(c) ==
    \A k \in Range(mlog[c].applied) \cup Range(mlog[c].begun) :
        k < FirstMismatched(c)

\* C7 as stated: with a row whose checksum differs from the record of its
\* version, migrate returns ChecksumError and applies no record at or after
\* the first mismatched one.  (Stated for calls that got past ensure_table
\* and the lookup.)
C7_Drift ==
    (Mismatched("c1") # {} /\ ~FailedBeforeLoop("c1")) =>
        /\ NothingFromMismatch("c1")
        /\ Finished("c1") => mig["c1"].result = "ChecksumError"

\* C7 amended: with such a row, migrate never returns Ok and applies no
\* record at or after the first mismatched one; it returns ChecksumError
\* unless a database call fails before that record is reached (in
\* ensure_table, in the lookup, or while applying an unseen record that
\* comes earlier in the list), and then it returns that PostgresError.
C7_DriftAmended ==
    Mismatched("c1") # {} =>
        /\ NothingFromMismatch("c1")
        /\ Finished("c1") =>
               \/ mig["c1"].result = "ChecksumError"
               \/ FailedBeforeLoop("c1")
               \/ /\ mig["c1"].result = "PostgresError"
                  /\ mlog["c1"].failure.stage = "apply_migration"
                  /\ mlog["c1"].failure.index < FirstMismatched("c1")

\* C7 witness: the table holds version 2 as first applied, the list is
\* <<M1, M2x>>: M1 is applied, then M2x is found changed
C7_Witness ==
    /\ Finished("c1")
    /\ mig["c1"].result = "ChecksumError"
    /\ mig["c1"].migrations = <<M1, M2x>>
    /\ FirstMismatched("c1") = 2
    /\ mlog["c1"].applied = <<1>>

\* the rows of the table with the version of a record
RowsOf(m) == {r \in db.rows : r.version = m.version}

\* C8: when migrate has returned Ok, the table holds for every record of
\* the list exactly one row with its version, and that row has the record's
\* checksum; n records with distinct versions applied to an empty database
\* leave exactly n rows.
C8_RowsAfterOk ==
    LET list == mig["c1"].migrations IN
    (Finished("c1") /\ mig["c1"].result = "Ok") =>
        /\ \A k \in 1..Len(list) :
              /\ Cardinality(RowsOf(list[k])) = 1
              /\ \A r \in RowsOf(list[k]) : r.checksum = list[k].checksum
        /\ (/\ mlog["c1"].start.rows = {}
            /\ \A k, l \in 1..Len(list) :
                   list[k].version = list[l].version => k = l)
           => Cardinality(db.rows) = Len(list)

\* C8 witness: <<M1, M2>> applied to an empty database, two rows
C8_Witness ==
    /\ Finished("c1")
    /\ mig["c1"].result = "Ok"
    /\ mig["c1"].migrations = <<M1, M2>>
    /\ mlog["c1"].start.rows = {}
    /\ mlog["c1"].applied = <<1, 2>>
    /\ {r.version : r \in db.rows} = {1, 2}

\* the effects of the statements of a record
Effects(m) ==
    {Effect(m, p) : p \in {q \in Range(split(m.sql, ";")) : ~trim_is_empty(q)}}

RowPresent(m) ==
    \E r \in db.rows : r.version = m.version /\ r.checksum = m.checksum

\* C9: in the committed database a record's bookkeeping row is there only
\* with the effects of all its statements, and an effect of one of its
\* statements only with its row; and when a database call of
\* apply_migration has failed, the committed database is the one the
\* transaction of that record began from.
C9_AllOrNothing ==
    /\ \A m \in {M1, M2, M2x} :
          /\ RowPresent(m) => Effects(m) \subseteq db.effects
          /\ Effects(m) \cap db.effects # {} => RowPresent(m)
    /\ (Finished("c1") /\ mlog["c1"].failure.stage = "apply_migration") =>
          db = mlog["c1"].txbase

\* C9 witness: a record fails after one of its statements ran in the
\* transaction; nothing of it is committed
C9_Witness ==
    /\ Finished("c1")
    /\ mlog["c1"].failure.stage = "apply_migration"
    /\ mlog["c1"].failure.stmts >= 1
    /\ mlog["c1"].failure.index = 1
    /\ db.rows = {}
    /\ db.effects = {}

\* C10: when a database call fails while the i-th record is applied,
\* migrate has returned PostgresError, the record was begun once, the
\* records applied in earlier iterations are committed with their rows, and
\* no record after the i-th is applied, begun or verified.
C10_FailurePartway ==
    LET l == mlog["c1"]
        list == mig["c1"].migrations
    IN
    l.failure.stage = "apply_migration" =>
        /\ Finished("c1")
        /\ mig["c1"].result = "PostgresError"
        /\ Cardinality({k \in 1..Len(l.begun) : l.begun[k] = l.failure.index}) <= 1
        /\ \A k \in Range(l.applied) :
              /\ k < l.failure.index
              /\ RowPresent(list[k])
              /\ Effects(list[k]) \subseteq db.effects
        /\ \A k \in Range(l.begun) : k <= l.failure.index
        /\ \A k \in Range(l.verified) : k < l.failure.index

\* C10 witness: <<M1, M2>> on an empty database, M1 applied, a failure
\* while M2 is applied
C10_Witness ==
    /\ mlog["c1"].failure.stage = "apply_migration"
    /\ mlog["c1"].failure.index = 2
    /\ mlog["c1"].applied = <<1>>
    /\ mig["c1"].migrations = <<M1, M2>>
    /\ mig["c1"].result = "PostgresError"
    /\ RowPresent(M1)
    /\ ~RowPresent(M2)

\* ------------------------------------------------------ fetch exactly one
\* the call made was a fetch of exactly one row
FetchOne == sent.kind \in {"get_one", "query_one"}

\* C11: query_one and get_one return Ok exactly when the statement yields
\* one row and no driver error occurs; with no row or with two rows or more
\* they return EmptyResult; a driver error is returned as PostgresError and
\* EmptyResult is returned only when no driver error occurred.
C11_FetchOne ==
    FetchOne =>
        LET o == sent.outcome IN
        /\ sent.result = "Ok" <=> (o.rows = 1 /\ ~o.error)
        /\ (~o.error /\ o.rows # 1) => sent.result = "EmptyResult"
        /\ o.error => sent.result = "PostgresError"
        /\ sent.result = "EmptyResult" => ~o.error

\* C11 witness: get_one on a statement that yields two rows
C11_Witness ==
    /\ sent.kind = "get_one"
    /\ sent.outcome = [error |-> FALSE, rows |-> 2]
    /\ sent.result = "EmptyResult"
    /\ sent.raw # <<>>

\* ------------------------------------------------------ Query invariants
\* C12: in every Query, arg_indexes is non-decreasing and every entry is at
\* most buffer.len().
C12_IndexesInRange ==
    \A t \in Slots :
        LET q == qs[t] IN
        /\ \A i, j \in 1..Len(q.arg_indexes) :
               i <= j => q.arg_indexes[i] <= q.arg_indexes[j]
        /\ \A i \in 1..Len(q.arg_indexes) :
               q.arg_indexes[i] <= Len(q.buffer)

\* C13: in every Query, args and arg_indexes have the same length, whatever
\* the fragments were.
C13_ArgsPaired ==
    \A t \in Slots : Len(qs[t].args) = Len(qs[t].arg_indexes)

\* C14: when a push call has just returned, separated is false, whatever
\* the fragment was; and a joiner call made right then inserts a single
\* space (nothing on an empty buffer), not its separator.
C14_PushClears ==
    \A t \in Slots :
        LET c == hist[t].call IN
        /\ hist[t].returned = "push" => ~qs[t].separated
        /\ (c.op # "none" /\ c.after = "push") =>
               c.pre = IF c.nonEmpty THEN <<" ">> ELSE <<>>

\* a closure entered in a separated context is open on slot t and nothing
\* has been called in its body yet
BodyStarts(t) ==
    /\ frames[t] # <<>>
    /\ frames[t][Len(frames[t])].separated
    /\ ~hist[t].lastDone
    /\ hist[t].lastDepth = Len(frames[t]) - 1

\* a closure entered in a separated context has returned on slot t and
\* nothing was appended since
GroupClosed(t) ==
    /\ hist[t].group.kind = "closure"
    /\ hist[t].group.sepAt
    /\ hist[t].group.closed = qs[t].buffer
    /\ hist[t].lastDone

\* C15: for a closure invoked in a separated context, separated is false
\* when its body starts, right after the opening parenthesis; the first
\* joiner call in the body inserts a space and no separator, a joiner call
\* that follows a joiner call in the body inserts its separator; when the
\* closure has returned separated is true, and the joiner call made next
\* inserts its separator after the closing parenthesis.
C15_GroupFlag ==
    \A t \in Slots :
        LET c == hist[t].call
            b == qs[t].buffer
        IN
        /\ BodyStarts(t) => ~qs[t].separated /\ b[Len(b)] = "("
        /\ (c.op # "none" /\ c.grouped /\ c.first) => c.pre = <<" ">>
        /\ (c.op # "none" /\ c.grouped /\ c.adjacent /\ c.prevOp \in Joiners)
               => c.pre = Separator(c.op)
        /\ GroupClosed(t) => qs[t].separated /\ b[Len(b)] = ")"
        /\ (c.op # "none" /\ c.afterGroup) => c.pre = Separator(c.op)

\* C15 witness: a; and(b); and(closure { or(c); or(d) }) has returned: the
\* second or in the group followed the first and the buffer ends with the
\* closing parenthesis
C15_Witness ==
    /\ GroupClosed("A")
    /\ hist["A"].call.op = "or"
    /\ hist["A"].call.grouped
    /\ hist["A"].call.adjacent
    /\ hist["A"].call.prevOp = "or"
    /\ frames["A"] = <<>>
    /\ qs["A"].separated
    /\ Chars(qs["A"].buffer) =
         <<"a", " ", "a", " ", "A", "N", "D", " ", "(", " ", "a", " ", "O",
           "R", " ", "a", ")">>

\* ------------------------------------------------- order of the migrations
\* the k-th record's version is in `current`, the applied set the call read
InSnapshot(c, k) ==
    \E n \in 1..Len(mig[c].current) :
        mig[c].current[n].version = mig[c].migrations[k].version

\* ... and its checksum there is another one
SnapshotDiffers(c, k) ==
    \E n \in 1..Len(mig[c].current) :
        /\ mig[c].current[n].version = mig[c].migrations[k].version
        /\ mig[c].current[n].checksum # mig[c].migrations[k].checksum

\* the table d has a row for the version
HasRow(d, version) == \E r \in d.rows : r.version = version

Increasing(seq) == \A k, l \in 1..Len(seq) : k < l => seq[k] < seq[l]

\* the records the call has evaluated
Evaluated(c) == Range(mlog[c].begun) \cup Range(mlog[c].verified)

\* the records whose transaction is open
OpenTx(c) ==
    {k \in Range(mlog[c].begun) : k \notin Range(mlog[c].applied) /\ ~Finished(c)}

\* the records are taken one by one in the order of the list, each once;
\* the transaction of a record begins when every record before it was
\* committed or skipped; one transaction at most is open
Sequential(c) ==
    /\ Evaluated(c) = 1..Cardinality(Evaluated(c))
    /\ Increasing(mlog[c].begun)
    /\ Increasing(mlog[c].verified)
    /\ Increasing(mlog[c].applied)
    /\ Range(mlog[c].begun) \cap Range(mlog[c].verified) = {}
    /\ Range(mlog[c].applied) \subseteq Range(mlog[c].begun)
    /\ \A k \in Range(mlog[c].begun) :
          \A j \in 1..(k - 1) :
              j \in Range(mlog[c].applied) \cup Range(mlog[c].verified)
    /\ Cardinality(OpenTx(c)) <= 1
    /\ mig[c].tx.open <=> OpenTx(c) = {mig[c].i}

\* a record found with another checksum ends the call with ChecksumError,
\* and nothing else does
FailsOnMismatch(c) ==
    /\ \A k \in Range(mlog[c].verified) :
          SnapshotDiffers(c, k) =>
              /\ Finished(c)
              /\ mig[c].result = "ChecksumError"
              /\ \A j \in Evaluated(c) : j <= k
    /\ mig[c].result = "ChecksumError" =>
          /\ mlog[c].verified # <<>>
          /\ SnapshotDiffers(c, mlog[c].verified[Len(mlog[c].verified)])

\* C16 as stated: the records are evaluated one by one in the order
\* supplied; a record is applied when the table has no row for its version
\* and compared (Skip / Fail) when it has one; a transaction begins only
\* after every earlier record was committed or skipped, and no two
\* transactions of a call are open together.
C16_Sequential ==
    /\ Sequential("c1")
    /\ FailsOnMismatch("c1")
    /\ mig["c1"].tx.open =>
          ~HasRow(mlog["c1"].txbase, mig["c1"].migrations[mig["c1"].i].version)
    /\ \A k \in Range(mlog["c1"].verified) :
          HasRow(db, mig["c1"].migrations[k].version)

\* C16 amended: the same, with the action of a record decided by the applied
\* set the call read at its start: Apply when the version is not in it (even
\* when a row for the version was committed since, as for a version that
\* comes twice in the list), Skip / Fail when it is.
C16_SequentialAmended ==
    /\ Sequential("c1")
    /\ FailsOnMismatch("c1")
    /\ \A k \in Range(mlog["c1"].begun) : ~InSnapshot("c1", k)
    /\ \A k \in Range(mlog["c1"].verified) : InSnapshot("c1", k)
    /\ (/\ mlog["c1"].failure.stage = "apply_migration"
        /\ mlog["c1"].failure.index > 0)
           => ~InSnapshot("c1", mlog["c1"].failure.index)

\* C16 witness: <<M2, M1>> on a table that holds version 1: M2 was applied,
\* then M1 was skipped, in the order of the list
C16_Witness ==
    /\ Finished("c1")
    /\ mig["c1"].result = "Ok"
    /\ mig["c1"].migrations = <<M2, M1>>
    /\ mlog["c1"].applied = <<1>>
    /\ mlog["c1"].verified = <<2>>
    /\ {r.version : r \in mlog["c1"].start.rows} = {1}

\* ------------------------------------------------- order of apply_migration
IsPrefix(a, b) == Len(a) <= Len(b) /\ \A k \in 1..Len(a) : a[k] = b[k]

\* a piece of SQL made of white space only
Blank(piece) == \A k \in 1..Len(piece) : piece[k] \in {" ", "\n", "\t"}

\* what apply_migration is to execute for a record: the pieces between the
\* `;` that are not blank, in the order of the text
Statements(m) ==
    LET keep(piece) == ~Blank(piece)
        pieces == SelectSeq(split(m.sql, ";"), keep)
    IN  [k \in 1..Len(pieces) |-> Effect(m, pieces[k])]

\* C17: apply_migration begins a transaction, executes in it the non-blank
\* pieces of the SQL in the order of the text, then inserts one row
\* (version, name, checksum), then commits: what the transaction has
\* executed is always a prefix of the record's statements, the row is
\* inserted only when all of them have been executed, commit is reached only
\* with the row inserted, and a record whose apply failed is not committed.
C17_ApplyOrder ==
    LET m == mig["c1"]
        l == mlog["c1"]
    IN
    /\ (m.tx.stmts # <<>> \/ m.tx.row # <<>>) =>
          /\ m.tx.open
          /\ l.begun # <<>> /\ l.begun[Len(l.begun)] = m.i
    /\ m.tx.open =>
          /\ m.pc \in {"statements", "commit"}
          /\ IsPrefix(m.tx.stmts, Statements(m.migrations[m.i]))
          /\ m.tx.row # <<>> =>
                /\ m.tx.stmts = Statements(m.migrations[m.i])
                /\ m.tx.row = <<[version |-> m.migrations[m.i].version,
                                 name |-> m.migrations[m.i].name,
                                 checksum |-> m.migrations[m.i].checksum]>>
    /\ m.pc = "commit" => m.tx.open /\ m.tx.row # <<>>
    /\ \A k \in Range(l.applied) :
          /\ Range(Statements(m.migrations[k])) \subseteq db.effects
          /\ Cardinality(RowsOf(m.migrations[k])) = 1
    /\ l.failure.stage = "apply_migration" =>
          /\ l.failure.index \notin Range(l.applied)
          /\ db = l.txbase

\* C17 witness: M1, whose SQL is s; ;t, just before its commit: s and t
\* executed in this order, the blank piece skipped, the row inserted
C17_Witness ==
    /\ mig["c1"].pc = "commit"
    /\ mig["c1"].migrations[mig["c1"].i] = M1
    /\ mig["c1"].tx.stmts = <<Effect(M1, <<"s">>), Effect(M1, <<"t">>)>>
    /\ Len(mig["c1"].tx.row) = 1

\* ------------------------------------------------------- two callers at once
\* caller c has an open transaction for a record of this version and has
\* executed all of its statements in it
ExecutedAll(c, version) ==
    /\ mig[c].tx.open
    /\ mig[c].migrations[mig[c].i].version = version
    /\ mig[c].tx.stmts = Statements(mig[c].migrations[mig[c].i])

\* the callers whose present call has committed a record of this version
Committers(version) ==
    {c \in Callers :
        \E k \in Range(mlog[c].applied) :
            mig[c].migrations[k].version = version}

\* C18: nothing but the applied set a call read at its start keeps it from
\* applying a record: every record a caller begins to apply is absent from
\* its own snapshot, whatever the other caller is doing, so two callers that
\* both read the snapshot before either commits both execute the statements
\* of the same unseen migration (the witness); of the two transactions one
\* at most is committed.
C18_Race ==
    /\ \A c \in Callers :
          \A k \in Range(mlog[c].begun) : ~InSnapshot(c, k)
    /\ \A c \in Callers :
          mig[c].tx.open => ~InSnapshot(c, mig[c].i)
    /\ \A v \in Versions : Cardinality(Committers(v)) <= 1

\* C18 witness: both callers have read an empty applied set, both have a
\* transaction open for M1 and both have executed its statements; nothing is
\* committed yet
C18_Witness ==
    /\ \A c \in Callers :
          /\ ExecutedAll(c, 1)
          /\ mig[c].migrations[mig[c].i] = M1
          /\ mig[c].current = <<>>
    /\ db.rows = {}

\* C20: the table holds one row at most per version; a transaction that has
\* inserted its row is open only while the table has no row for the version;
\* a call that began to apply a record and did not commit it has returned
\* PostgresError or is still at it; and the rows a call found at its start are
\* all still there, as they were.
C20_PrimaryKey ==
    /\ \A v \in Versions : db.nrows[v] <= 1
    /\ \A r1, r2 \in db.rows : r1.version = r2.version => r1 = r2
    /\ \A c \in Callers :
          /\ mig[c].tx.row # <<>> =>
                ~HasRow(db, mig[c].migrations[mig[c].i].version)
          /\ \A k \in Range(mlog[c].begun) :
                (k \notin Range(mlog[c].applied) /\ Finished(c)) =>
                    mig[c].result = "PostgresError"
          /\ mlog[c].start.rows \subseteq db.rows
          /\ mlog[c].txbase.rows \subseteq db.rows

\* C20 witness: c2 read its applied set before c1 committed version 1 and
\* went on to apply M1 itself: its call has returned PostgresError, failed
\* in apply_migration with all statements executed, and the table holds the
\* one row of c1
C20_Witness ==
    /\ mlog["c1"].applied # <<>>
    /\ mig["c1"].migrations[mlog["c1"].applied[1]] = M1
    /\ Finished("c2")
    /\ mig["c2"].result = "PostgresError"
    /\ mlog["c2"].failure.stage = "apply_migration"
    /\ mig["c2"].migrations[mlog["c2"].failure.index] = M1
    /\ mlog["c2"].failure.stmts = Len(Statements(M1))
    /\ mig["c2"].current = <<>>
    /\ db.nrows[1] = 1

\* C19: in every Query, cursor is the length of the buffer in bytes.
C19_Cursor ==
    \A t \in Slots : qs[t].cursor = Len(qs[t].buffer)

====
